---- MODULE Spec2Model ----
(***************************************************************************)
(* Model of src/src/main.rs: the instrumented quick sort that sorts a      *)
(* slice in place and returns the tree of Frames of its own recursion.     *)
(*                                                                         *)
(* The recursion is modelled with an explicit call stack of activation     *)
(* records, one step per source statement.  Array indices are the source's *)
(* (0-based, signed isize); the array itself is a TLA+ sequence, so the    *)
(* element at source index k is arr[k + 1].                                *)
(***************************************************************************)
EXTENDS Integers, Sequences, FiniteSets

VARIABLES
    array,    \* the slice `array: &mut [i64]` shared by every activation
    stack,    \* the call stack of quick_sort activations, innermost last
    ret,      \* <<>> until the outermost call returns, then <<root Frame>>
    status,   \* "running", "done" (outermost call returned) or "panic"
    acc,      \* the raw isize indices the last step used to index the slice
    array0,   \* the slice contents passed to the outermost call
    left0,    \* the `left` argument of the outermost call
    right0,   \* the `right` argument of the outermost call
    copies    \* number of times `array.to_vec()` has been executed

vars == <<array, stack, ret, status, acc, array0, left0, right0, copies>>

----------------------------------------------------------------------------
(* Bounds of the model *)

MaxLen == 4       \* longest slice of the general specification
MaxVal == 3       \* slice values are drawn from 1..MaxVal
MaxAscLen == 5    \* longest slice of the ascending-input specification

----------------------------------------------------------------------------
(* Slices *)

\* `array[k as usize]` is inside the slice; a negative isize cast to usize
\* is far beyond any length, so it is out of bounds as well.
InBounds(arr, k) == 0 <= k /\ k < Len(arr)

At(arr, k) == arr[k + 1]

\* A swap that loses the temporary: only one of the two cells is written
swap_lossy(arr, a, b) == [arr EXCEPT ![a + 1] = arr[b + 1]]

\* <[T]>::swap(a, b), both indices already known to be inside the slice
swap(arr, a, b) ==
    [arr EXCEPT ![a + 1] = arr[b + 1], ![b + 1] = arr[a + 1]]

\* <[T]>::to_vec(): a copy of the whole slice
to_vec(arr) == arr

----------------------------------------------------------------------------
(* Frame *)

new_empty(left, right) ==
    [left |-> left, right |-> right, full |-> <<>>]

new(left, right, result, pivot, children) ==
    [left |-> left, right |-> right,
     full |-> <<[result |-> result, pivot |-> pivot, children |-> children]>>]

Min(a, b) == IF a <= b THEN a ELSE b

Max(a, b) == IF a >= b THEN a ELSE b

RECURSIVE count(_)
count(f) ==
    1 + (IF f.full # <<>>
         THEN count(f.full[1].children[1]) + count(f.full[1].children[2])
         ELSE 0)

RECURSIVE max_depth(_, _)
max_depth(f, depth) ==
    LET d == depth + 1
    IN  IF f.full # <<>>
        THEN Max(max_depth(f.full[1].children[1], d),
                 max_depth(f.full[1].children[2], d))
        ELSE d

----------------------------------------------------------------------------
(* quick_sort *)

\* The activation record of a fresh call quick_sort(array, left, right)
Activation(left, right) ==
    [left |-> left, right |-> right, pc |-> "entry",
     pivot |-> 0, i |-> 0, j |-> 0, result |-> <<>>, children |-> <<>>]

Top == stack[Len(stack)]

SetTop(r) == [stack EXCEPT ![Len(stack)] = r]

At_pc(pc) == status = "running" /\ Len(stack) > 0 /\ Top.pc = pc

\* The test of line 139
IsLeaf(left, right) == right <= left

\* The loop conditions of lines 146 and 149 (the slice is read first)
ScanICond(arr, i, pivot, right) == At(arr, i) < pivot /\ i < right

\* The backward scan without its `j > left` guard
ScanJCondUnguarded(arr, j, pivot, left) == At(arr, j) > pivot

ScanJCond(arr, j, pivot, left) == At(arr, j) > pivot /\ j > left

\* The left recursive call made over (left, i): the pivot index included
Child0BoundsInclusive(left, right, i) == <<left, i>>

\* The arguments of the two recursive calls, lines 159 and 160
Child0Bounds(left, right, i) == <<left, i - 1>>

Child1Bounds(left, right, i) == <<i + 1, right>>

\* An index out of bounds: the slice access panics
Panic(idx) ==
    /\ status' = "panic"
    /\ acc' = idx
    /\ UNCHANGED <<array, stack, ret, array0, left0, right0, copies>>

\* A call returns frame f to its caller
Deliver(f) ==
    /\ IF Len(stack) = 1
       THEN /\ stack' = <<>>
            /\ ret' = <<f>>
            /\ status' = "done"
       ELSE /\ stack' = [SubSeq(stack, 1, Len(stack) - 1)
                           EXCEPT ![Len(stack) - 1].children = Append(@, f)]
            /\ UNCHANGED <<ret, status>>
    /\ acc' = {}
    /\ UNCHANGED <<array, array0, left0, right0, copies>>

\* lines 139-141
ReturnEmpty ==
    /\ At_pc("entry")
    /\ IsLeaf(Top.left, Top.right)
    /\ Deliver(new_empty(Top.left, Top.right))

\* lines 142-144
LoadPivot ==
    /\ At_pc("entry")
    /\ ~IsLeaf(Top.left, Top.right)
    /\ IF ~InBounds(array, Top.right)
       THEN Panic({Top.right})
       ELSE /\ stack' = SetTop([Top EXCEPT !.pivot = At(array, Top.right),
                                           !.i = Top.left,
                                           !.j = Top.right - 1,
                                           !.pc = "outer"])
            /\ acc' = {Top.right}
            /\ UNCHANGED <<array, ret, status, array0, left0, right0, copies>>

\* line 145
OuterTest ==
    /\ At_pc("outer")
    /\ stack' = SetTop([Top EXCEPT !.pc = IF Top.i < Top.j THEN "scan_i"
                                                            ELSE "pivot_swap"])
    /\ acc' = {}
    /\ UNCHANGED <<array, ret, status, array0, left0, right0, copies>>

\* lines 146-148
ScanI ==
    /\ At_pc("scan_i")
    /\ IF ~InBounds(array, Top.i)
       THEN Panic({Top.i})
       ELSE /\ stack' = SetTop(IF ScanICond(array, Top.i, Top.pivot, Top.right)
                               THEN [Top EXCEPT !.i = Top.i + 1]
                               ELSE [Top EXCEPT !.pc = "scan_j"])
            /\ acc' = {Top.i}
            /\ UNCHANGED <<array, ret, status, array0, left0, right0, copies>>

\* lines 149-151
ScanJ ==
    /\ At_pc("scan_j")
    /\ IF ~InBounds(array, Top.j)
       THEN Panic({Top.j})
       ELSE /\ stack' = SetTop(IF ScanJCond(array, Top.j, Top.pivot, Top.left)
                               THEN [Top EXCEPT !.j = Top.j - 1]
                               ELSE [Top EXCEPT !.pc = "swap_ij"])
            /\ acc' = {Top.j}
            /\ UNCHANGED <<array, ret, status, array0, left0, right0, copies>>

\* lines 152-154
SwapIJ ==
    /\ At_pc("swap_ij")
    /\ IF Top.i < Top.j
       THEN IF ~(InBounds(array, Top.i) /\ InBounds(array, Top.j))
            THEN Panic({Top.i, Top.j})
            ELSE /\ array' = swap(array, Top.i, Top.j)
                 /\ stack' = SetTop([Top EXCEPT !.pc = "outer"])
                 /\ acc' = {Top.i, Top.j}
                 /\ UNCHANGED <<ret, status, array0, left0, right0, copies>>
       ELSE /\ stack' = SetTop([Top EXCEPT !.pc = "outer"])
            /\ acc' = {}
            /\ UNCHANGED <<array, ret, status, array0, left0, right0, copies>>

\* line 156
PivotSwap ==
    /\ At_pc("pivot_swap")
    /\ IF ~(InBounds(array, Top.i) /\ InBounds(array, Top.right))
       THEN Panic({Top.i, Top.right})
       ELSE /\ array' = swap(array, Top.i, Top.right)
            /\ stack' = SetTop([Top EXCEPT !.pc = "snapshot"])
            /\ acc' = {Top.i, Top.right}
            /\ UNCHANGED <<ret, status, array0, left0, right0, copies>>

\* line 157
Snapshot ==
    /\ At_pc("snapshot")
    /\ stack' = SetTop([Top EXCEPT !.result = <<to_vec(array)>>,
                                   !.pc = "call0"])
    /\ copies' = copies + 1
    /\ acc' = {}
    /\ UNCHANGED <<array, ret, status, array0, left0, right0>>

\* line 159
Call0 ==
    /\ At_pc("call0")
    /\ LET b == Child0Bounds(Top.left, Top.right, Top.i)
       IN  stack' = Append(SetTop([Top EXCEPT !.pc = "call1"]),
                           Activation(b[1], b[2]))
    /\ acc' = {}
    /\ UNCHANGED <<array, ret, status, array0, left0, right0, copies>>

\* line 160
Call1 ==
    /\ At_pc("call1")
    /\ LET b == Child1Bounds(Top.left, Top.right, Top.i)
       IN  stack' = Append(SetTop([Top EXCEPT !.pc = "return"]),
                           Activation(b[1], b[2]))
    /\ acc' = {}
    /\ UNCHANGED <<array, ret, status, array0, left0, right0, copies>>

\* The frame built from the slice as it is when the call returns, after the
\* recursive calls, instead of from the copy of line 157
ReturnFullLate ==
    /\ At_pc("return")
    /\ Deliver(new(Top.left, Top.right, to_vec(array), Top.i, Top.children))

\* line 162
ReturnFull ==
    /\ At_pc("return")
    /\ Deliver(new(Top.left, Top.right, Top.result[1], Top.i, Top.children))

Next ==
    \/ ReturnEmpty
    \/ LoadPivot
    \/ OuterTest
    \/ ScanI
    \/ ScanJ
    \/ SwapIJ
    \/ PivotSwap
    \/ Snapshot
    \/ Call0
    \/ Call1
    \/ ReturnFull

----------------------------------------------------------------------------
(* Specifications *)

Values == 1..MaxVal

Slices == UNION {[1..n -> Values] : n \in 0..MaxLen}

\* Arguments a caller may pass: every index of the slice, one below, a few
\* above, and one far beyond the end
BoundArgs(arr) == (-1 .. MaxLen + 2) \cup {Len(arr) + 10}

Start(arr, left, right) ==
    /\ array = arr
    /\ array0 = arr
    /\ left0 = left
    /\ right0 = right
    /\ stack = <<Activation(left, right)>>
    /\ ret = <<>>
    /\ status = "running"
    /\ acc = {}
    /\ copies = 0

Init ==
    \E arr \in Slices :
        \E left \in BoundArgs(arr), right \in BoundArgs(arr) :
            Start(arr, left, right)

Spec == Init /\ [][Next]_vars

\* The program is one synchronous thread: it keeps stepping until it returns
\* or panics.
FairSpec == Spec /\ WF_vars(Next)

StrictlyAscending(arr) == \A k \in 1..(Len(arr) - 1) : arr[k] < arr[k + 1]

AscSlices ==
    UNION {{a \in [1..n -> 1..(MaxAscLen + 1)] : StrictlyAscending(a)} :
              n \in 1..MaxAscLen}

AscInit == \E arr \in AscSlices : Start(arr, 0, Len(arr) - 1)

AscSpec == AscInit /\ [][Next]_vars

\* The call made by the App component, line 167
AppArray == <<3, 5, 2, 7, 8, 6, 1, 9, 3, 4>>

AppInit == Start(AppArray, 0, 9)

AppSpec == AppInit /\ [][Next]_vars /\ WF_vars(Next)

----------------------------------------------------------------------------
(* Properties *)

Done == status = "done"

\* The precondition of a non-empty outermost call
Valid0 == 0 <= left0 /\ left0 <= right0 /\ right0 < Len(array0)

Root == ret[1]

Sorted(arr, left, right) ==
    \A k \in left..(right - 1) : At(arr, k) <= At(arr, k + 1)

\* C1: once quick_sort(array, left, right) with valid bounds has completed,
\* array[left..=right] is non-decreasing.
Sortedness == (Done /\ Valid0) => Sorted(array, left0, right0)

\* C2: with valid bounds the call is a bounded computation: it eventually
\* returns a root frame.
Termination == Valid0 => <>Done

RECURSIVE PartitionOK(_)
PartitionOK(f) ==
    \/ f.full = <<>>
    \/ LET r == f.full[1].result
           p == f.full[1].pivot
       IN  /\ \A k \in f.left..(p - 1) : At(r, k) <= At(r, p)
           /\ \A k \in (p + 1)..f.right : At(r, k) >= At(r, p)
           /\ PartitionOK(f.full[1].children[1])
           /\ PartitionOK(f.full[1].children[2])

\* C3: in the snapshot of every payload-bearing frame of a finished tree,
\* the values left of the pivot index are <= the value at the pivot index and
\* the values right of it are >= that value.
PartitionCorrect == Done => PartitionOK(Root)

\* C4: sorting a strictly ascending array with bounds (0, n-1) leaves it
\* element for element unchanged.
Idempotence == Done => array = array0

\* Bounds no caller may pass: left > right + 1, or a non-empty range that
\* leaves the slice
Malformed0 ==
    \/ left0 > right0 + 1
    \/ left0 <= right0 /\ ~(0 <= left0 /\ right0 < Len(array0))

\* C5: a call with malformed bounds never returns a frame normally.
MalformedRejected == Malformed0 => ~Done

RECURSIVE Spanning(_)
Spanning(f) ==
    /\ (f.full # <<>>) <=> (f.right > f.left)
    /\ f.full # <<>> =>
          LET p  == f.full[1].pivot
              c0 == f.full[1].children[1]
              c1 == f.full[1].children[2]
          IN  /\ f.left <= p /\ p <= f.right
              /\ Len(f.full[1].children) = 2
              /\ c0.left = f.left /\ c0.right = p - 1
              /\ c1.left = p + 1 /\ c1.right = f.right
              /\ Spanning(c0)
              /\ Spanning(c1)

\* C6: in every returned tree a frame carries a payload iff right > left,
\* and a payload-bearing frame has left <= pivot <= right and children with
\* bounds exactly (left, pivot-1) and (pivot+1, right); the root has the
\* bounds of the call.
BoundsSpanning ==
    Done => /\ Root.left = left0 /\ Root.right = right0
            /\ Spanning(Root)

RECURSIVE payloads(_)
payloads(f) ==
    IF f.full = <<>> THEN 0
    ELSE 1 + payloads(f.full[1].children[1]) + payloads(f.full[1].children[2])

RECURSIVE FullLength(_)
FullLength(f) ==
    \/ f.full = <<>>
    \/ /\ Len(f.full[1].result) = Len(array0)
       /\ FullLength(f.full[1].children[1])
       /\ FullLength(f.full[1].children[2])

\* What holds of the snapshots in every state: an activation holds one
\* exactly when it is past line 157, it is as long as the whole slice, and
\* right before the first recursive call it equals the slice; a finished
\* tree holds as many snapshots as copies were made.
SnapInv ==
    /\ \A d \in 1..Len(stack) :
          LET a == stack[d]
          IN  /\ (a.result # <<>>) <=> (a.pc \in {"call0", "call1", "return"})
              /\ a.result # <<>> => Len(a.result[1]) = Len(array0)
              /\ \A c \in 1..Len(a.children) : FullLength(a.children[c])
    /\ At_pc("call0") => Top.result = <<array>>
    /\ Done => /\ FullLength(Root)
               /\ copies = payloads(Root)

\* The frame the returning call hands to its caller
Delivered ==
    IF stack' = <<>>
    THEN ret'[1]
    ELSE LET p == stack'[Len(stack')] IN p.children[Len(p.children)]

\* What holds of every step: the copy of line 157 is taken of the slice as
\* the pivot swap left it, a snapshot once taken and a frame once built never
\* change, and the frame built at line 162 carries the snapshot of line 157.
SnapStep ==
    /\ At_pc("snapshot") => /\ array' = array
                            /\ stack'[Len(stack)].result = <<array>>
    /\ \A d \in 1..Len(stack) :
          d <= Len(stack') =>
             /\ stack[d].result # <<>> => stack'[d].result = stack[d].result
             /\ \A c \in 1..Len(stack[d].children) :
                   stack'[d].children[c] = stack[d].children[c]
    /\ (Len(stack') < Len(stack) /\ Top.pc = "return") =>
          /\ Delivered.full # <<>>
          /\ Delivered.full[1].result = Top.result[1]
    /\ (Len(stack') < Len(stack) /\ Top.pc = "entry") => Delivered.full = <<>>
    /\ ret # <<>> => ret' = ret

\* C7: every payload-bearing frame stores exactly one snapshot, a copy of the
\* whole slice taken right after the frame's pivot swap and before its first
\* recursive call, and no later step changes it.
SnapshotTiming == []SnapInv /\ [][SnapStep]_vars

\* C8: for a strictly ascending array of length n sorted with bounds
\* (0, n-1), root.max_depth(0) = n.
DepthDegeneration ==
    /\ status # "panic"
    /\ Done => max_depth(Root, 0) = Len(array0)

AppDone ==
    /\ Done
    /\ array = <<1, 2, 3, 3, 4, 5, 6, 7, 8, 9>>
    /\ Root.full # <<>>
    /\ Root.full[1].pivot = 4
    /\ Root.full[1].result = <<3, 3, 2, 1, 4, 6, 7, 9, 5, 8>>

\* C9: the App component's call terminates with the array sorted and the
\* root frame carrying pivot index 4 and snapshot [3,3,2,1,4,6,7,9,5,8].
EndToEnd == <>AppDone

CountIn(arr, left, right, v) ==
    Cardinality({k \in left..right : At(arr, k) = v})

\* C10: with valid bounds no step panics, every index a step uses lies in
\* the range of the running call and in [left, right] of the outermost call,
\* the values in [left, right] stay a rearrangement of the input's and every
\* position outside [left, right] keeps its value.
InRangeOnly ==
    Valid0 =>
       /\ status # "panic"
       /\ acc \subseteq left0..right0
       /\ (status = "running" /\ acc # {}) => acc \subseteq Top.left..Top.right
       /\ Len(array) = Len(array0)
       /\ \A v \in {array0[k] : k \in 1..Len(array0)} \cup
                    {array[k] : k \in 1..Len(array)} :
             CountIn(array, left0, right0, v) = CountIn(array0, left0, right0, v)
       /\ \A k \in 0..(Len(array) - 1) :
             (k < left0 \/ k > right0) => At(array, k) = At(array0, k)

----------------------------------------------------------------------------
(* Reachable cases *)

SortednessWitness ==
    /\ Done /\ Valid0
    /\ right0 - left0 >= 2
    /\ array # array0
    /\ Sorted(array, left0, right0)

PartitionWitness ==
    /\ Done
    /\ Root.full # <<>>
    /\ Root.full[1].children[1].full # <<>>

SpanningWitness ==
    /\ Done /\ Valid0
    /\ Root.full # <<>>
    /\ Root.full[1].children[1].full # <<>>
    /\ Root.full[1].children[2].full = <<>>
    /\ count(Root) >= 5

SnapshotWitness ==
    /\ Done
    /\ Root.full # <<>>
    /\ Root.full[1].result # array
    /\ copies >= 2

AppWitness ==
    /\ Done
    /\ array0 = AppArray
    /\ Sorted(array, 0, 9)
    /\ count(Root) = 13
    /\ max_depth(Root, 0) = 5

DepthWitness ==
    /\ Done
    /\ Len(array0) = MaxAscLen
    /\ max_depth(Root, 0) = MaxAscLen

InRangeWitness ==
    /\ Valid0
    /\ 0 < left0 /\ right0 < Len(array0) - 1
    /\ Cardinality(acc) = 2
    /\ array # array0

====
